---------------------------- MODULE Spec2Model ----------------------------
(***************************************************************************)
(* Model of stopwatch.py: the Timer class (start / stop / reset /          *)
(* elapsed_time) and the App render loop (_read_keys, _update, _draw).     *)
(*                                                                         *)
(* Clock readings (time()) are integers counting hundredths of a second,   *)
(* the resolution of the display.                                          *)
(*                                                                         *)
(* The specifications share the state:                                     *)
(*   SpecTimer  the Timer driven directly through its methods, in any      *)
(*              order, under a non-decreasing clock;                       *)
(*   Spec       the App: construction, then the loop of _loop;             *)
(*   SpecFair   Spec with the fairness of the loop's phases;               *)
(*   SpecLong   the same loop run past a full turn of the hue;             *)
(*   SpecDraw   _draw applied to the states the loop can hand it.          *)
(***************************************************************************)
EXTENDS Integers, Sequences, FiniteSets

VARIABLES
    started,      \* Timer._started
    time_start,   \* Timer._time_start
    time_stop,    \* Timer._time_stop
    now,          \* the reading time() returns
    running,      \* App._running
    hue,          \* App._hue
    c,            \* the key code read by _read_keys (-1: none / out of scope)
    pc,           \* position of the control thread
    cursor,       \* cursor visibility set by curses.curs_set
    ended,        \* curses.endwin() has run
    frame,        \* what the last _draw put on the screen
    hist,         \* history: the Timer methods called directly (SpecTimer)
    last_op,      \* history: the Timer method the last step invoked
    ticks,        \* history: update phases that found the Timer started, since reset
    paused,       \* history: Timer.stop() was invoked since the last reset
    used,         \* history: Timer.start() was invoked since the last reset
    acc           \* history: time the clock advanced with the Timer started, since reset

timer == <<started, time_start, time_stop>>
app   == <<running, hue, c, pc, cursor, ended, frame>>
ghost == <<ticks, paused, used, acc>>
vars  == <<started, time_start, time_stop, now, running, hue, c, pc, cursor,
           ended, frame, hist, last_op, ticks, paused, used, acc>>

---------------------------------------------------------------------------
(* Bounds of the model *)

MaxClock == 4
MaxOps == 4
AppMaxClock == 5
MaxElapsed == 1234
AppMaxTicks == 4
LongMaxClock == 2
MaxTicks == 362

(* Program constants *)

HUE_MOD == 360
CENTIS == 100
NO_KEY == -1
ord_q == 113
ord_Q == 81
ord_r == 114
ord_R == 82
ord_s == 115
ord_S == 83

(* What getch() can return: no key, the six bound keys, and two keys the
   program does not bind ("x" and "1") *)
Keys == {NO_KEY, ord_q, ord_Q, ord_r, ord_R, ord_s, ord_S, 120, 49}

---------------------------------------------------------------------------
(* Timer *)

is_started == started

elapsed_time_always_now == now - time_start

elapsed_time == (IF started THEN now ELSE time_stop) - time_start

Timer_reset_start_only ==
    /\ time_start' = 0
    /\ UNCHANGED <<time_stop, started>>

Timer_reset ==
    /\ time_start' = 0
    /\ time_stop' = 0
    /\ UNCHANGED started

Timer_start_no_shift ==
    /\ time_start' = IF time_start # 0 THEN time_start ELSE now
    /\ started' = TRUE
    /\ UNCHANGED time_stop

Timer_start ==
    /\ time_start' = IF time_start # 0
                       THEN time_start + (now - time_stop)
                       ELSE now
    /\ started' = TRUE
    /\ UNCHANGED time_stop

Timer_stop ==
    /\ time_stop' = now
    /\ started' = FALSE
    /\ UNCHANGED time_start

(* Timer.__init__: _started = False, then reset() *)
Timer_init ==
    /\ started = FALSE
    /\ time_start = 0
    /\ time_stop = 0

---------------------------------------------------------------------------
(* The clock: time() is read, never set; it does not go backwards. *)

Tick(d, cap) ==
    /\ now + d <= cap
    /\ now' = now + d
    /\ last_op' = "none"
    /\ acc' = IF started THEN acc + d ELSE acc
    /\ UNCHANGED <<timer, app, hist, ticks, paused, used>>

---------------------------------------------------------------------------
(* SpecTimer: the Timer's methods called directly, in any order *)

Call(op) == hist' = Append(hist, [op |-> op, at |-> now])

Call_start ==
    /\ Len(hist) < MaxOps
    /\ Timer_start
    /\ Call("start")
    /\ last_op' = "start"
    /\ used' = TRUE
    /\ UNCHANGED <<now, app, ticks, paused, acc>>

Call_stop ==
    /\ Len(hist) < MaxOps
    /\ Timer_stop
    /\ Call("stop")
    /\ last_op' = "stop"
    /\ paused' = TRUE
    /\ UNCHANGED <<now, app, ticks, used, acc>>

Call_reset ==
    /\ Len(hist) < MaxOps
    /\ Timer_reset
    /\ Call("reset")
    /\ last_op' = "reset"
    /\ paused' = FALSE
    /\ used' = FALSE
    /\ acc' = 0
    /\ UNCHANGED <<now, app, ticks>>

TimerTick == Tick(1, MaxClock)

(* The screen before the first _draw: nothing drawn *)
NoFrame == [s |-> <<>>, cs |-> <<>>, sep |-> FALSE, x |-> 0, y |-> 0,
            help_x |-> 0]

InitTimer ==
    /\ Timer_init
    /\ now \in 0..1
    /\ running = FALSE
    /\ hue = 0
    /\ c = NO_KEY
    /\ pc = "api"
    /\ cursor = 1
    /\ ended = FALSE
    /\ frame = NoFrame
    /\ hist = <<>>
    /\ last_op = "none"
    /\ ticks = 0
    /\ paused = FALSE
    /\ used = FALSE
    /\ acc = 0

NextTimer ==
    \/ Call_start
    \/ Call_stop
    \/ Call_reset
    \/ TimerTick

SpecTimer == InitTimer /\ [][NextTimer]_vars

---------------------------------------------------------------------------
(* App: formatting of the elapsed time, f"{elapsed_time:.2f}".split(".") *)

DigitChars == <<"0", "1", "2", "3", "4", "5", "6", "7", "8", "9">>

Abs(n) == IF n < 0 THEN -n ELSE n

RECURSIVE Digits(_)
(* the decimal digits of n >= 0, most significant first *)
Digits(n) ==
    IF n < 10 THEN <<DigitChars[n + 1]>>
    ELSE Append(Digits(n \div 10), DigitChars[(n % 10) + 1])

Format2f_unpadded(e) ==
    (IF e < 0 THEN <<"-">> ELSE <<>>)
        \o Digits(Abs(e) \div CENTIS)
        \o <<".">>
        \o Digits(Abs(e) % CENTIS)

(* The text of e hundredths of a second in the format .2f *)
Format2f(e) ==
    (IF e < 0 THEN <<"-">> ELSE <<>>)
        \o Digits(Abs(e) \div CENTIS)
        \o <<".">>
        \o <<DigitChars[((Abs(e) % CENTIS) \div 10) + 1],
             DigitChars[(Abs(e) % 10) + 1]>>

(* The position of the first "." of text *)
DotAt(text) == CHOOSE i \in 1..Len(text) :
                   /\ text[i] = "."
                   /\ \A j \in 1..(i - 1) : text[j] # "."

SplitDot(text) ==
    <<SubSeq(text, 1, DotAt(text) - 1), SubSeq(text, DotAt(text) + 1, Len(text))>>

---------------------------------------------------------------------------
(* App: the digit glyphs *)

DIGITS ==
    <<"f", "9", "9", "9", "f",
      "1", "1", "1", "1", "1",
      "f", "1", "f", "8", "f",
      "f", "1", "f", "1", "f",
      "9", "9", "f", "1", "1",
      "f", "8", "f", "1", "f",
      "f", "8", "f", "9", "f",
      "f", "1", "1", "1", "1",
      "f", "9", "f", "9", "f",
      "f", "9", "f", "1", "f">>

HELP_LEN == 44

HexChars == <<"0", "1", "2", "3", "4", "5", "6", "7", "8", "9",
              "a", "b", "c", "d", "e", "f">>

(* int(ch, 16) *)
int16(ch) == CHOOSE v \in 0..15 : HexChars[v + 1] = ch

(* App._unpack_digits: one tuple of 5 row-masks per chunk of 5 characters *)
unpack_digits ==
    [d \in 0..((Len(DIGITS) \div 5) - 1) |->
        [i \in 0..4 |-> int16(DIGITS[5 * d + i + 1])]]

(* App._digits *)
digits == unpack_digits

RECURSIVE Pow2(_)
Pow2(b) == IF b = 0 THEN 1 ELSE 2 * Pow2(b - 1)

bit_set_lsb_first(line, j) == (line \div Pow2(j)) % 2 = 1

(* line & (1 << (3 - j)), as a truth value *)
bit_set(line, j) == (line \div Pow2(3 - j)) % 2 = 1

(* App._draw_digit: the cells addstr paints, as <<row, column>> *)
draw_digit(n, x, y) ==
    {<<y + p[1], x + 2 * p[2]>> :
        p \in {q \in (0..4) \X (0..3) : bit_set(digits[n][q[1]], q[2])}}

IsDigitChar(ch) == \E v \in 0..9 : DigitChars[v + 1] = ch

(* int(c) of a decimal digit *)
int10(ch) == CHOOSE v \in 0..9 : DigitChars[v + 1] = ch

(* App._draw_number *)
draw_number(n, x, y) ==
    UNION {draw_digit(int10(n[i]), x + (i - 1) * 10, y) : i \in 1..Len(n)}

(* What getmaxyx() can return, as <<h, w>> *)
Dims == {<<24, 80>>, <<40, 120>>}

BlinkBit_one_hertz(t) == (t \div CENTIS) % 2

(* int(time() * 2) & 0b1 *)
BlinkBit(t) == ((t * 2) \div CENTIS) % 2

separator_drawn == is_started \/ BlinkBit(now) = 1

---------------------------------------------------------------------------
(* App: the phases of one tick of _loop *)

is_quit_lower_only(k) == k = ord_q

is_quit(k) == k \in {ord_q, ord_Q}

is_reset(k) == k \in {ord_r, ord_R}

is_toggle_lower_only(k) == k = ord_s

is_toggle(k) == k \in {ord_s, ord_S}

reset_accepted_ungated(k) == is_reset(k)

reset_accepted(k) == is_reset(k) /\ ~is_started

next_hue_no_wrap(h) == h + 1

next_hue(h) == (h + 1) % HUE_MOD

set_hue(h) == hue' = h

(* App._reset *)
App_reset ==
    /\ set_hue(0)
    /\ Timer_reset

update_advances_always == TRUE

update_advances == is_started

(* App._read_keys: one getch(), then at most one command. No tick begins
   once cap update phases have advanced the hue since the last reset. *)
ReadKeysWithin(cap) ==
    /\ pc = "read_keys"
    /\ ticks < cap
    /\ \E k \in Keys :
        /\ c' = k
        /\ IF is_quit(k)
             THEN /\ running' = FALSE
                  /\ last_op' = "none"
                  /\ UNCHANGED <<timer, hue, ghost>>
           ELSE IF reset_accepted(k)
             THEN /\ App_reset
                  /\ last_op' = "reset"
                  /\ ticks' = 0
                  /\ paused' = FALSE
                  /\ used' = FALSE
                  /\ acc' = 0
                  /\ UNCHANGED running
           ELSE IF is_toggle(k)
             THEN /\ IF is_started
                       THEN /\ Timer_stop
                            /\ last_op' = "stop"
                            /\ paused' = TRUE
                            /\ UNCHANGED used
                       ELSE /\ Timer_start
                            /\ last_op' = "start"
                            /\ used' = TRUE
                            /\ UNCHANGED paused
                  /\ UNCHANGED <<running, hue, ticks, acc>>
           ELSE /\ last_op' = "none"
                /\ UNCHANGED <<timer, running, hue, ghost>>
    /\ pc' = "update"
    /\ UNCHANGED <<now, cursor, ended, frame, hist>>

ReadKeys == ReadKeysWithin(AppMaxTicks)

(* App._update *)
Update ==
    /\ pc = "update"
    /\ IF update_advances
         THEN /\ set_hue(next_hue(hue))
              /\ ticks' = ticks + 1
         ELSE UNCHANGED <<hue, ticks>>
    /\ c' = NO_KEY
    /\ last_op' = "none"
    /\ pc' = "draw"
    /\ UNCHANGED <<timer, now, running, cursor, ended, frame, hist, paused,
                   used, acc>>

(* The frame _draw puts on a screen of h rows and w columns: the two digit
   groups, the origin they are drawn from, whether the separator is drawn,
   and the column of the help line *)
DrawnFrame(h, w) ==
    LET parts == SplitDot(Format2f(elapsed_time))
        ls == Len(parts[1])
        lcs == Len(parts[2])
    IN  [s |-> parts[1], cs |-> parts[2], sep |-> separator_drawn,
         x |-> (w - 2 * (5 * (ls + lcs) + 3) - 1) \div 2,
         y |-> (h - 8) \div 2,
         help_x |-> (w - HELP_LEN) \div 2]

(* The cells the two _draw_number calls of _draw painted in the frame *)
painted ==
    draw_number(frame.s, frame.x, frame.y)
        \cup draw_number(frame.cs, frame.x + 10 * Len(frame.s) + 6, frame.y)

(* int(c) raises ValueError on a character that is no digit *)
Drawable ==
    LET text == Format2f(elapsed_time)
    IN  \A i \in 1..Len(text) : text[i] = "." \/ IsDigitChar(text[i])

(* App._draw, then the loop test of _loop *)
Draw ==
    /\ pc = "draw"
    /\ IF Drawable
         THEN /\ \E d \in Dims : frame' = DrawnFrame(d[1], d[2])
              /\ pc' = IF running THEN "read_keys" ELSE "end_screen"
         ELSE /\ pc' = "raised"
              /\ UNCHANGED frame
    /\ last_op' = "none"
    /\ UNCHANGED <<timer, now, running, hue, c, cursor, ended, hist, ghost>>

(* App._end_screen *)
EndScreen ==
    /\ pc = "end_screen"
    /\ cursor' = 1
    /\ ended' = TRUE
    /\ last_op' = "none"
    /\ pc' = "done"
    /\ UNCHANGED <<timer, now, running, hue, c, frame, hist, ghost>>

AppTick == Tick(1, AppMaxClock)

(* App.__init__ up to the call of _loop: _setup, _setup_screen, _init_colors *)
Init ==
    /\ Timer_init
    /\ now \in 1..2
    /\ running = TRUE
    /\ hue = 0
    /\ c = NO_KEY
    /\ pc = "read_keys"
    /\ cursor = 0
    /\ ended = FALSE
    /\ frame = NoFrame
    /\ hist = <<>>
    /\ last_op = "none"
    /\ ticks = 0
    /\ paused = FALSE
    /\ used = FALSE
    /\ acc = 0

Next ==
    \/ ReadKeys
    \/ Update
    \/ Draw
    \/ EndScreen
    \/ AppTick

Spec == Init /\ [][Next]_vars

(* The loop is one thread that never blocks: getch() returns within its
   timeout, and each phase returns, so a phase that can run does run. *)
Fairness ==
    /\ WF_vars(ReadKeys)
    /\ WF_vars(Update)
    /\ WF_vars(Draw)
    /\ WF_vars(EndScreen)

SpecFair == Spec /\ Fairness

(* The same loop run for more than a full turn of the hue, on a clock that
   hardly moves *)
LongReadKeys == ReadKeysWithin(MaxTicks)

LongTick == Tick(1, LongMaxClock)

NextLong ==
    \/ LongReadKeys
    \/ Update
    \/ Draw
    \/ EndScreen
    \/ LongTick

SpecLong == Init /\ [][NextLong]_vars

---------------------------------------------------------------------------
(* SpecDraw: _draw applied to the states the loop can hand it.

   The loop reaches its draw phase with the Timer never started, running for
   e hundredths, or stopped g hundredths ago after running for e; the clock
   is in either half of a second.  In each case the tick before was idle
   and drew the same state (except at the first tick), so the screen holds
   that frame. *)

DrawClocks == {MaxElapsed + 51, MaxElapsed + 101}

InitDraw ==
    /\ now \in DrawClocks
    /\ \/ /\ Timer_init
          /\ hue = 0
          /\ ticks = 0
          /\ paused = FALSE
          /\ used = FALSE
          /\ frame = NoFrame
       \/ /\ started = TRUE
          /\ time_start \in (now - MaxElapsed)..now
          /\ time_stop = 0
          /\ hue = 1
          /\ ticks = 1
          /\ paused = FALSE
          /\ used = TRUE
          /\ frame = NoFrame
       \/ /\ started = FALSE
          /\ time_stop \in {now - 50, now}
          /\ time_start \in (time_stop - MaxElapsed)..time_stop
          /\ hue = 1
          /\ ticks = 1
          /\ paused = TRUE
          /\ used = TRUE
          /\ frame \in {DrawnFrame(d[1], d[2]) : d \in Dims}
    /\ acc = elapsed_time
    /\ running \in BOOLEAN
    /\ c = NO_KEY
    /\ pc = "draw"
    /\ cursor = 0
    /\ ended = FALSE
    /\ hist = <<>>
    /\ last_op = "none"

NextDraw ==
    \/ Draw
    \/ EndScreen

SpecDraw == InitDraw /\ [][NextDraw]_vars

---------------------------------------------------------------------------
(* Reading the history of direct calls *)

Ops(h) == {h[i].op : i \in 1..Len(h)}

OnlyStartStop(h) == Ops(h) \subseteq {"start", "stop"}

RECURSIVE Intervals(_, _, _, _, _)
(* The sum of the durations of the intervals of h during which the Timer was
   started: an interval opens at a start() called on a Timer that is not
   started and closes at the next stop(). *)
Intervals(h, i, on, since, total) ==
    IF i > Len(h) THEN total
    ELSE IF h[i].op = "start"
        THEN Intervals(h, i + 1, TRUE, IF on THEN since ELSE h[i].at, total)
    ELSE IF h[i].op = "stop"
        THEN Intervals(h, i + 1, FALSE, since,
                       IF on THEN total + (h[i].at - since) ELSE total)
    ELSE Intervals(h, i + 1, FALSE, since, 0)

StartedDuration(h) == Intervals(h, 1, FALSE, 0, 0)

(* The index of the start() that opened the run of start() calls h ends with *)
OriginalStart(h) ==
    CHOOSE k \in 1..Len(h) :
        /\ \A i \in k..Len(h) : h[i].op = "start"
        /\ (k = 1 \/ h[k - 1].op # "start")

OpsAre(h, ops) ==
    /\ Len(h) = Len(ops)
    /\ \A i \in 1..Len(ops) : h[i].op = ops[i]

---------------------------------------------------------------------------
(* Claims about the Timer (SpecTimer) *)

(* C1: for every sequence of start() and stop() calls on a fresh Timer, the
   elapsed_time read immediately after a stop() equals the sum of the
   durations of the intervals during which the Timer was started. *)
C1_ElapsedAfterStop ==
    (OnlyStartStop(hist) /\ last_op = "stop")
        => elapsed_time = StartedDuration(hist)

(* C2: reset(), called in any state, leaves elapsed_time = 0 and
   is_started = FALSE. *)
C2_ResetClears ==
    last_op = "reset" => (elapsed_time = 0 /\ ~is_started)

(* C3: after start() is called twice in a row, elapsed_time at any later clock
   reading is that reading minus the reading of the original start, plus the
   time accumulated before it. *)
C3_NoDoubleCount ==
    (/\ Len(hist) >= 2
     /\ OnlyStartStop(hist)
     /\ hist[Len(hist)].op = "start"
     /\ hist[Len(hist) - 1].op = "start")
        => LET k == OriginalStart(hist)
           IN  elapsed_time =
                   (now - hist[k].at) + StartedDuration(SubSeq(hist, 1, k - 1))

(* C4: a fresh Timer started at t0, stopped at t1 and started again at t2
   reads t1 - t0 at every query while stopped, and (t1 - t0) + (t3 - t2) at
   every query t3 after the second start. *)
C4_PauseResume ==
    /\ OpsAre(hist, <<"start", "stop">>)
         => elapsed_time = hist[2].at - hist[1].at
    /\ OpsAre(hist, <<"start", "stop", "start">>)
         => elapsed_time = (hist[2].at - hist[1].at) + (now - hist[3].at)

(* C5: elapsed_time is never negative, whatever sequence of reset(), start()
   and stop() was called. *)
C5_NonNegative == elapsed_time >= 0

(* C6: while the clock advances between two Timer operations, elapsed_time
   does not decrease if the Timer is started and does not change if it is
   stopped. *)
C6_MonotoneOrFrozen ==
    [][TimerTick =>
         IF started THEN elapsed_time' >= elapsed_time
                    ELSE elapsed_time' = elapsed_time]_vars

(* A Timer that ran, was stopped, and has seen the clock advance since. *)
C6_Witness ==
    /\ ~started
    /\ last_op = "none"
    /\ elapsed_time > 0
    /\ now > time_stop
    /\ OpsAre(hist, <<"start", "stop">>)

---------------------------------------------------------------------------
(* Claims about the render loop (Spec) *)

(* a step that is the input phase of a tick, and one that is its update phase *)
InputPhase == pc = "read_keys" /\ pc' = "update"

UpdatePhase == pc = "update" /\ pc' = "draw"

ResetKeys == {ord_r, ord_R}

ToggleKeys == {ord_s, ord_S}

QuitKeys == {ord_q, ord_Q}

(* C7: a Reset key read while the Timer is started changes neither the
   Timer's flag and references nor the hue, and the Timer keeps running; a
   reset is carried out only by an input phase that finds the Timer stopped. *)
C7_ResetRejectedWhileRunning ==
    [][/\ (InputPhase /\ started /\ c' \in ResetKeys)
            => (UNCHANGED <<started, time_start, time_stop, hue>> /\ started')
       /\ last_op' = "reset" => (InputPhase /\ ~started /\ c' \in ResetKeys)]_vars

(* A Reset key has just been read while the Timer runs, the hue having
   advanced: the Timer still runs and the hue is still advanced. *)
C7_Witness ==
    /\ pc = "update"
    /\ c \in ResetKeys
    /\ started
    /\ time_start # 0
    /\ hue > 0

(* C8: from a reset state, after N update phases that found the Timer
   started, with no stop or reset in between, the hue is N mod 360. *)
C8_HueAfterNTicks ==
    ~paused => hue = ticks % HUE_MOD

(* More than 360 running ticks since the reset without a stop: the hue has
   wrapped around. *)
C8_Witness ==
    /\ ~paused
    /\ started
    /\ ticks = HUE_MOD + 1
    /\ hue = 1

(* C9: the hue changes only by advancing 1 (mod 360) in an update phase that
   finds the Timer started, which always advances it, and by being set to 0
   by an accepted Reset; a toggle (stop, resume) leaves it unchanged. *)
C9_HueChanges ==
    [][/\ hue' # hue =>
            \/ (UpdatePhase /\ started /\ hue' = (hue + 1) % HUE_MOD)
            \/ (InputPhase /\ ~started /\ c' \in ResetKeys /\ hue' = 0)
       /\ (UpdatePhase /\ started) => hue' = (hue + 1) % HUE_MOD
       /\ (InputPhase /\ ~started /\ c' \in ResetKeys) => hue' = 0
       /\ (InputPhase /\ c' \in ToggleKeys) => hue' = hue]_vars

(* The Timer has just been resumed after a stop and the hue it had reached
   is still there. *)
C9_Witness ==
    /\ paused
    /\ started
    /\ last_op = "start"
    /\ hue > 1

(* C10: in the input phase s and S toggle the Timer, r and R request a reset,
   q and Q clear the running flag, any other key code (the "no key" of the
   poll included) leaves Timer, hue and running flag unchanged, and a key is
   read only by the input phase, once. *)
C10_KeyHandling ==
    [][/\ InputPhase =>
            /\ c' \in ToggleKeys =>
                 (started' = ~started /\ UNCHANGED <<hue, running>>)
            /\ c' \in ResetKeys =>
                 /\ UNCHANGED <<started, running>>
                 /\ IF started
                      THEN UNCHANGED <<time_start, time_stop, hue>>
                      ELSE time_start' = 0 /\ time_stop' = 0 /\ hue' = 0
            /\ c' \in QuitKeys =>
                 (~running' /\ UNCHANGED <<started, time_start, time_stop, hue>>)
            /\ c' \notin (ToggleKeys \cup ResetKeys \cup QuitKeys) =>
                 UNCHANGED <<started, time_start, time_stop, hue, running>>
       /\ (c' # c /\ c' # NO_KEY) => InputPhase]_vars

(* An upper-case S has just started the Timer. *)
C10_Witness ==
    /\ pc = "update"
    /\ c = ord_S
    /\ started
    /\ last_op = "start"

(* C11: the running flag is cleared by q or Q in the input phase and by
   nothing else, and stays cleared; the tick that read Quit goes on through
   its update and draw phases, no further tick begins, and the teardown
   (cursor shown again, endwin) then runs, after which the program is done. *)
C11_QuitEndsLoop ==
    /\ [][/\ (running /\ ~running') => (InputPhase /\ c' \in QuitKeys)
          /\ (InputPhase /\ c' \in QuitKeys) => ~running'
          /\ ~running => ~running'
          /\ ~running => pc' # "read_keys"
          /\ (pc # "end_screen" /\ pc' = "end_screen") => (pc = "draw" /\ ~running)
          /\ (pc # "done" /\ pc' = "done")
                => (pc = "end_screen" /\ cursor' = 1 /\ ended')
          /\ ended' => pc' = "done"]_vars
    /\ ~running ~> (pc = "done" /\ ended /\ cursor = 1)

(* Quit was read while the Timer was running, and the teardown has run. *)
C11_Witness ==
    /\ pc = "done"
    /\ ~running
    /\ started
    /\ ended
    /\ cursor = 1
    /\ frame # NoFrame

---------------------------------------------------------------------------
(* Claims about the frame (SpecDraw) *)

(* the value of a hexadecimal digit character, and of a decimal one *)
HexValue(ch) ==
    CASE ch = "0" -> 0 [] ch = "1" -> 1 [] ch = "2" -> 2 [] ch = "3" -> 3
      [] ch = "4" -> 4 [] ch = "5" -> 5 [] ch = "6" -> 6 [] ch = "7" -> 7
      [] ch = "8" -> 8 [] ch = "9" -> 9 [] ch = "a" -> 10 [] ch = "b" -> 11
      [] ch = "c" -> 12 [] ch = "d" -> 13 [] ch = "e" -> 14 [] ch = "f" -> 15

(* the hex nibble at position k (from 0) of the encoding *)
NibbleAt(k) == HexValue(DIGITS[k + 1])

(* bit b of the 4-bit mask m is set *)
MaskBit(m, b) == (m \div <<1, 2, 4, 8>>[b + 1]) % 2 = 1

(* the glyph origins of the frame: <<digit character, column of its glyph>> *)
GlyphsOf(f) ==
    {<<f.s[k], f.x + 10 * (k - 1)>> : k \in 1..Len(f.s)}
        \cup {<<f.cs[k], f.x + 10 * Len(f.s) + 6 + 10 * (k - 1)>> :
                 k \in 1..Len(f.cs)}

(* C12: decoding the 50-character encoding gives 10 glyphs of 5 row-masks in
   0..15, row i of digit d being the hex nibble at position 5*d+i (digit 5 is
   f, 8, f, 1, f); and a drawn digit d has column j of row i painted exactly
   when bit 3-j of that row-mask is set. *)
C12_GlyphDecodeAndPaint ==
    /\ Len(DIGITS) = 50
    /\ DOMAIN digits = 0..9
    /\ \A d \in 0..9 :
        /\ DOMAIN digits[d] = 0..4
        /\ \A i \in 0..4 : digits[d][i] \in 0..15 /\ digits[d][i] = NibbleAt(5 * d + i)
    /\ <<digits[5][0], digits[5][1], digits[5][2], digits[5][3], digits[5][4]>>
           = <<15, 8, 15, 1, 15>>
    /\ frame # NoFrame =>
        LET cells == painted
        IN  \A g \in GlyphsOf(frame) : \A i \in 0..4 : \A j \in 0..3 :
                <<frame.y + i, g[2] + 2 * j>> \in cells
                    <=> MaskBit(NibbleAt(5 * HexValue(g[1]) + i), 3 - j)

(* A frame showing 5.05 s has been drawn: the glyph of digit 5 is on the
   screen, its second row painted in the leftmost column only. *)
C12_Witness ==
    /\ pc = "read_keys"
    /\ frame.s = <<"5">>
    /\ frame.cs = <<"0", "5">>
    /\ <<frame.y + 1, frame.x>> \in painted
    /\ <<frame.y + 1, frame.x + 2>> \notin painted

(* text is made of decimal digits only *)
AllDigits(text) ==
    \A k \in 1..Len(text) :
        text[k] \in {"0", "1", "2", "3", "4", "5", "6", "7", "8", "9"}

RECURSIVE DecValue(_)
(* the number a text of decimal digits denotes *)
DecValue(text) ==
    IF text = <<>> THEN 0
    ELSE 10 * DecValue(SubSeq(text, 1, Len(text) - 1)) + HexValue(text[Len(text)])

(* C13: every _draw splits the elapsed time, in whole hundredths of a second,
   into the decimal digits of the whole seconds (at least one digit, no
   leading zero, digits only) and exactly two decimal digits of hundredths,
   and int(c) never raises; 2.23 s gives "2" and "23". *)
C13_DigitGroups ==
    [][pc = "draw" =>
         /\ pc' # "raised"
         /\ Len(frame'.s) >= 1
         /\ AllDigits(frame'.s)
         /\ (Len(frame'.s) = 1 \/ frame'.s[1] # "0")
         /\ DecValue(frame'.s) = elapsed_time \div 100
         /\ Len(frame'.cs) = 2
         /\ AllDigits(frame'.cs)
         /\ DecValue(frame'.cs) = elapsed_time % 100
         /\ elapsed_time = 223 =>
                (frame'.s = <<"2">> /\ frame'.cs = <<"2", "3">>)]_vars

(* 2.23 s have elapsed and the frame drawn shows "2" and "23". *)
C13_Witness ==
    /\ pc = "read_keys"
    /\ elapsed_time = 223
    /\ frame.s = <<"2">>
    /\ frame.cs = <<"2", "3">>

---------------------------------------------------------------------------
(* Claims about the Timer inside the render loop (Spec) *)

(* C14: in every state of the render loop elapsed_time is the time the Timer
   has spent started since the last accepted Reset (or since creation); it
   is never negative, and it is 0 while the Timer has not been started since
   that Reset. *)
C14_ElapsedIsAccumulated ==
    /\ elapsed_time = acc
    /\ elapsed_time >= 0
    /\ ~used => elapsed_time = 0

(* The Timer ran, was stopped while the clock went on, was resumed, and has
   run again: the pause is not counted. *)
C14_Witness ==
    /\ started
    /\ paused
    /\ acc >= 2
    /\ now - acc > 1
    /\ now > time_stop + 1

(* the state of the input state machine *)
Mode ==
    IF ~running THEN "Terminated"
    ELSE IF started THEN "Running"
    ELSE IF time_start = 0 /\ time_stop = 0 THEN "StoppedAtZero"
    ELSE IF time_start # 0 THEN "StoppedNonzero"
    ELSE "Other"

(* C15: the loop starts in Stopped-at-zero and is always in one of
   Stopped-at-zero, Running, Stopped-nonzero, Terminated; only the input
   phase changes the state: Toggle takes either stopped state to Running and
   Running to Stopped-nonzero, Reset takes either stopped state to
   Stopped-at-zero and changes nothing in Running, Quit takes every state
   to Terminated, any other key leaves the state as it is. *)
C15_StateMachine ==
    /\ Mode = "StoppedAtZero"
    /\ [](Mode # "Other")
    /\ [][/\ ~InputPhase => Mode' = Mode
          /\ InputPhase =>
               /\ Mode # "Terminated"
               /\ c' \in ToggleKeys =>
                    Mode' = IF Mode = "Running" THEN "StoppedNonzero" ELSE "Running"
               /\ c' \in ResetKeys =>
                    IF Mode = "Running"
                      THEN Mode' = "Running"
                           /\ UNCHANGED <<started, time_start, time_stop>>
                      ELSE Mode' = "StoppedAtZero"
               /\ c' \in QuitKeys => Mode' = "Terminated"
               /\ c' \notin (ToggleKeys \cup ResetKeys \cup QuitKeys) =>
                    Mode' = Mode]_vars

(* A Reset has just taken the loop from Stopped-nonzero (the screen still
   shows the time it had) to Stopped-at-zero. *)
C15_Witness ==
    /\ Mode = "StoppedAtZero"
    /\ last_op = "reset"
    /\ frame # NoFrame
    /\ frame.cs # <<"0", "0">>

(* C16: the loop calls Timer.start() only on a Timer that is not started,
   Timer.stop() only on one that is started, Timer.reset() only on one that
   is not started; and the Timer's fields change only in the input phase,
   never in the update or draw phase. *)
C16_GatedCalls ==
    [][/\ last_op' = "start" => (InputPhase /\ ~started /\ c' \in ToggleKeys)
       /\ last_op' = "stop" => (InputPhase /\ started /\ c' \in ToggleKeys)
       /\ last_op' = "reset" => (InputPhase /\ ~started /\ c' \in ResetKeys)
       /\ <<started, time_start, time_stop>>' # <<started, time_start, time_stop>>
            => (InputPhase /\ last_op' # "none")
       /\ (pc \in {"update", "draw", "end_screen"})
            => UNCHANGED <<started, time_start, time_stop>>]_vars

(* The loop has just stopped a running Timer on a Toggle key. *)
C16_Witness ==
    /\ pc = "update"
    /\ last_op = "stop"
    /\ c \in ToggleKeys
    /\ ~started
    /\ time_stop = now
    /\ acc > 0

---------------------------------------------------------------------------
(* Claims about the Timer (SpecTimer), continued *)

(* the started flag after the calls of h on a fresh Timer: start() sets it,
   stop() clears it *)
FlagAfter(h) ==
    LET idx == {i \in 1..Len(h) : h[i].op # "reset"}
    IN  /\ idx # {}
        /\ h[CHOOSE i \in idx : \A j \in idx : j <= i].op = "start"

(* C17: after a reset() of a stopped Timer every elapsed_time query returns
   0 until the next start(), however far the clock advances and whatever
   stop() calls occur in between. *)
C17_ZeroUntilStart ==
    (\E k \in 1..Len(hist) :
        /\ hist[k].op = "reset"
        /\ ~FlagAfter(SubSeq(hist, 1, k - 1))
        /\ \A i \in (k + 1)..Len(hist) : hist[i].op # "start")
      => elapsed_time = 0

---------------------------------------------------------------------------
(* Claims about the frame (SpecDraw), continued *)

(* the half-second window the clock reading t (in hundredths) lies in *)
HalfSecond(t) == (2 * t) \div 100

(* C18, as claimed: every _draw draws the separator exactly when the Timer is
   running, or is stopped while the clock is in an even half-second window. *)
C18_SeparatorEvenWindow ==
    [][pc = "draw" =>
         (frame'.sep <=> (started \/ HalfSecond(now) % 2 = 0))]_vars

(* C18, amended: every _draw draws the separator exactly when the Timer is
   running, or is stopped while the clock is in an odd half-second window;
   while stopped this depends on the clock alone. *)
C18_SeparatorOddWindow ==
    [][pc = "draw" =>
         (frame'.sep <=> (started \/ HalfSecond(now) % 2 = 1))]_vars

(* A stopped Timer with time on it, drawn with the separator in an odd
   half-second window. *)
C18_Witness ==
    /\ pc = "read_keys"
    /\ ~started
    /\ elapsed_time > 0
    /\ HalfSecond(now) % 2 = 1
    /\ frame.sep

---------------------------------------------------------------------------
(* Claims about the hue (SpecLong) *)

(* C19: the hue is an integer in [0, 360) in every state of the render loop,
   from the initialisation of the colours on, through ticks, toggles and
   resets. *)
C19_HueInRange == hue \in 0..359

(* The update phase of the 360th running tick has just taken the hue from
   359 back to 0. *)
C19_Witness ==
    /\ pc = "draw"
    /\ started
    /\ ticks = 360
    /\ hue = 0

===========================================================================
